---- MODULE Spec2Model ----
(***************************************************************************)
(* Model of src/utils/binary_search_tree.py: BSTree, an AVL tree that     *)
(* stores only a balance factor (bf) per node.                             *)
(*                                                                         *)
(* The Python objects are modelled as a heap: every BSTree.Node is a node  *)
(* id, and the fields left/right/value/bf are functions over node ids.     *)
(* The node methods are operators that thread the heap through their      *)
(* assignments in source order, so that an exception leaves the heap as   *)
(* it was mutated up to the raise.  Node addresses carry no meaning in    *)
(* Python, so the state between two public calls is kept with the nodes   *)
(* renumbered in preorder (Canon).                                         *)
(***************************************************************************)
EXTENDS Integers, Sequences, FiniteSets, TLC

\* Bounds of the model.
MaxVal == 4      \* Spec: values are 1..MaxVal (full public interface)
MaxKey == 8      \* SpecDeep: values are 1..MaxKey (insert/delete only)
MaxLen == 5      \* SpecNew: the constructor's argument has at most MaxLen items
MaxTall == 11    \* SpecTall: values are 1..MaxTall (insert/delete, no call record)
MaxGrow == 9     \* SpecShrink: values are 1..MaxGrow (one delete recorded)
MaxSub == 1      \* SpecNode: the three subtrees of a rotation have height <= MaxSub

None == 0        \* Python's None as a value
Nil == 0         \* Python's None as an absent node reference

Values == 1..MaxVal
Keys == 1..MaxKey
TallKeys == 1..MaxTall
GrowKeys == 1..MaxGrow
SubHeights == (0 - 1)..MaxSub
Shapes == {"L", "R", "F"}
Sizes == {MaxVal, MaxKey, MaxTall, MaxGrow, 2 + 3 * (2^(MaxSub + 1) - 1)}
MaxNodes == CHOOSE m \in Sizes : \A k \in Sizes : k <= m
NodeIds == 1..MaxNodes
Indices == (0 - (MaxVal + 2))..(MaxVal + 1)
Lists == UNION {[1..k -> Values] : k \in 0..MaxLen}

VARIABLES root, left, right, value, bf,    \* the BSTree object and its nodes
          op, arg, idx, ret, retval,       \* the last public call and its outcome
          out,                             \* the values yielded by the last traversal
          iterable,                        \* the constructor's argument
          obs,                             \* what happened inside the last call
          pre                              \* the tree as it was before that call

vars == <<root, left, right, value, bf, op, arg, idx, ret, retval,
          out, iterable, obs, pre>>

Max(a, b) == IF a > b THEN a ELSE b
Min(a, b) == IF a < b THEN a ELSE b
Abs(a) == IF a < 0 THEN 0 - a ELSE a

\* The element of a one-element set.
Once(S) == CHOOSE x \in S : TRUE

----------------------------------------------------------------------------
(* Heap plumbing *)

\* Outcome of a node method: normal return of node n, or exception e.
Ok(h, n) == [h |-> h, n |-> n, err |-> "ok"]
Raise(h, e) ==
    [h |-> [h EXCEPT !.obs.raised = @ \cup {e}], n |-> Nil, err |-> e]

\* Ghost record of what a call did, kept in the heap as h.obs: the exceptions
\* raised, the rotations completed, the largest |bf| any node ever held,
\* the node whose balance() is running (focus), the node the inner rotation
\* of its double rotation lifts (inner), and whether some node other than
\* focus (stray), or other than focus and inner (astray), ever held |bf| = 2;
\* the outcomes of the height tests of insert and delete (judged), whether
\* one of them disagreed with the real heights (misjudged), and for every
\* balance() that rotated the value of its node and the real height of the
\* subtree it returned (fixes).
NoObs == [raised |-> {}, rots |-> <<>>, worst |-> 0, focus |-> Nil,
          inner |-> Nil, stray |-> FALSE, astray |-> FALSE,
          judged |-> {}, misjudged |-> FALSE, fixes |-> <<>>]

\* The heap is looked at: every value of bf that exists now is recorded.
Seen(h) ==
    LET two == {m \in h.live : Abs(h.bf[m]) = 2}
        big == CHOOSE a \in {Abs(h.bf[m]) : m \in h.live} \cup {0} :
                   \A m \in h.live : Abs(h.bf[m]) <= a
    IN  [h EXCEPT !.obs.worst = Max(@, big),
                  !.obs.stray = @ \/ two \ {h.obs.focus} # {},
                  !.obs.astray = @ \/ two \ {h.obs.focus, h.obs.inner} # {}]

\* balance() starts on node n.
Balancing(h, n) == Seen([h EXCEPT !.obs.focus = n, !.obs.inner = Nil])

\* The inner rotation of a double rotation is about to lift node g.
Lifting(h, g) == [h EXCEPT !.obs.inner = g]

\* Height of the subtree rooted at n, recomputed from the links; an absent
\* subtree has height -1.
RECURSIVE RealHeight(_, _)
RealHeight(h, n) ==
    IF n = Nil THEN 0 - 1
    ELSE 1 + Max(RealHeight(h, h.left[n]), RealHeight(h, h.right[n]))

\* A frame of insert or delete has applied its height test to a child slot
\* that held c0 in heap h0 and holds c1 in heap h1: the outcome is recorded
\* with what became of the slot and whether its node now has bf = 0, and
\* compared with the real change of height, which is to be delta when the
\* test is true.
Judge(h0, c0, h1, c1, test, delta) ==
    LET kind == IF c1 = Nil THEN "absent"
                ELSE IF c1 = c0 THEN "same" ELSE "other"
        real == RealHeight(h1, c1) = RealHeight(h0, c0) + delta
        level == c1 # Nil /\ h1.bf[c1] = 0
    IN  [h1 EXCEPT !.obs.judged = @ \cup {<<test, kind, level>>},
                   !.obs.misjudged = @ \/ (test # real)]

\* balance() on node n has rotated and returns r.
Fixed(r, n) ==
    IF r.err # "ok" THEN r
    ELSE [r EXCEPT !.h.obs.fixes =
                       Append(@, <<r.h.value[n], RealHeight(r.h, r.n)>>)]

\* A rotation has completed.
Rotated(h, name) == [h EXCEPT !.obs.rots = Append(@, name)]

\* BSTree.Node(val): a fresh object, balance 0, no children.
NewNode(h, val) ==
    LET free == NodeIds \ h.live
        n == CHOOSE i \in free : \A j \in free : i <= j
    IN  Ok([h EXCEPT !.live = @ \cup {n},
                      !.value[n] = val, !.bf[n] = 0,
                      !.left[n] = Nil, !.right[n] = Nil], n)

----------------------------------------------------------------------------
(* BSTree.Node methods *)

RECURSIVE Node_len(_, _)

\* Variant of Node.__len__ that takes right_len from the left child.
Node_len_left_twice(h, n) ==
    LET left_len == IF h.left[n] # Nil THEN Node_len(h, h.left[n]) ELSE 0
        right_len == IF h.left[n] # Nil THEN Node_len(h, h.left[n]) ELSE 0
    IN  1 + left_len + right_len

Node_len(h, n) ==
    LET left_len == IF h.left[n] # Nil THEN Node_len(h, h.left[n]) ELSE 0
        right_len == IF h.right[n] # Nil THEN Node_len(h, h.right[n]) ELSE 0
    IN  1 + left_len + right_len

RECURSIVE Node_iter(_, _)
Node_iter(h, n) ==
    (IF h.left[n] # Nil THEN Node_iter(h, h.left[n]) ELSE <<>>)
    \o <<h.value[n]>>
    \o (IF h.right[n] # Nil THEN Node_iter(h, h.right[n]) ELSE <<>>)

RECURSIVE Node_reversed(_, _)

\* Variant of Node.__reversed__ that visits the node before its right subtree.
Node_reversed_node_first(h, n) ==
    <<h.value[n]>>
    \o (IF h.right[n] # Nil THEN Node_reversed(h, h.right[n]) ELSE <<>>)
    \o (IF h.left[n] # Nil THEN Node_reversed(h, h.left[n]) ELSE <<>>)

Node_reversed(h, n) ==
    (IF h.right[n] # Nil THEN Node_reversed(h, h.right[n]) ELSE <<>>)
    \o <<h.value[n]>>
    \o (IF h.left[n] # Nil THEN Node_reversed(h, h.left[n]) ELSE <<>>)

RECURSIVE height(_, _)
height(h, n) ==
    LET left_height == IF h.left[n] # Nil THEN height(h, h.left[n]) ELSE -1
        right_height == IF h.right[n] # Nil THEN height(h, h.right[n]) ELSE -1
    IN  Max(left_height, right_height) + 1

RECURSIVE find_min(_, _)
find_min(h, n) ==
    IF h.left[n] # Nil THEN find_min(h, h.left[n]) ELSE h.value[n]

\* Variant of find_max that follows the left links.
find_max_left(h, n) == find_min(h, n)

\* Variant of find_max that does not descend.
find_max_stop(h, n) == h.value[n]

RECURSIVE find_max(_, _)
find_max(h, n) ==
    IF h.right[n] # Nil THEN find_max(h, h.right[n]) ELSE h.value[n]

\* Variant of rotate_left whose first update takes min where the code takes
\* max.
rotate_left_min(h, n) ==
    LET b == h.right[n] IN
    IF b = Nil THEN Raise(h, "ValueError")
    ELSE LET h1 == [h EXCEPT !.right[n] = h.left[b]]
             h2 == [h1 EXCEPT !.left[b] = n]
             h3 == Seen([h2 EXCEPT !.bf[n] = @ - (1 + Min(h2.bf[b], 0))])
             h4 == Seen([h3 EXCEPT !.bf[b] = @ - (1 - Min(h3.bf[n], 0))])
         IN  Ok(Rotated(h4, "rotate_left"), b)

\* Variant of rotate_left whose second update reads self.bf as it was before
\* the first update.
rotate_left_stale(h, n) ==
    LET b == h.right[n] IN
    IF b = Nil THEN Raise(h, "ValueError")
    ELSE LET h1 == [h EXCEPT !.right[n] = h.left[b]]
             h2 == [h1 EXCEPT !.left[b] = n]
             h3 == Seen([h2 EXCEPT !.bf[n] = @ - (1 + Max(h2.bf[b], 0))])
             h4 == Seen([h3 EXCEPT !.bf[b] = @ - (1 - Min(h2.bf[n], 0))])
         IN  Ok(Rotated(h4, "rotate_left"), b)

rotate_left(h, n) ==
    LET b == h.right[n] IN
    IF b = Nil THEN Raise(h, "ValueError")
    ELSE LET h1 == [h EXCEPT !.right[n] = h.left[b]]
             h2 == [h1 EXCEPT !.left[b] = n]
             h3 == Seen([h2 EXCEPT !.bf[n] = @ - (1 + Max(h2.bf[b], 0))])
             h4 == Seen([h3 EXCEPT !.bf[b] = @ - (1 - Min(h3.bf[n], 0))])
         IN  Ok(Rotated(h4, "rotate_left"), b)

\* Variant of rotate_right that leaves b.bf as it was.
rotate_right_keep_b(h, n) ==
    LET b == h.left[n] IN
    IF b = Nil THEN Raise(h, "ValueError")
    ELSE LET h1 == [h EXCEPT !.left[n] = h.right[b]]
             h2 == [h1 EXCEPT !.right[b] = n]
             h3 == Seen([h2 EXCEPT !.bf[n] = @ + (1 - Min(h2.bf[b], 0))])
         IN  Ok(Rotated(h3, "rotate_right"), b)

rotate_right(h, n) ==
    LET b == h.left[n] IN
    IF b = Nil THEN Raise(h, "ValueError")
    ELSE LET h1 == [h EXCEPT !.left[n] = h.right[b]]
             h2 == [h1 EXCEPT !.right[b] = n]
             h3 == Seen([h2 EXCEPT !.bf[n] = @ + (1 - Min(h2.bf[b], 0))])
             h4 == Seen([h3 EXCEPT !.bf[b] = @ + (1 + Max(h3.bf[n], 0))])
         IN  Ok(Rotated(h4, "rotate_right"), b)

\* Variant of balance that rotates only when bf is beyond -2..2.
balance_slack(h0, n) ==
    LET h == Balancing(h0, n) IN
    IF h.bf[n] < -2 THEN
        IF h.left[n] = Nil THEN Raise(h, "AssertionError")
        ELSE IF h.bf[h.left[n]] <= 0 THEN Fixed(rotate_right(h, n), n)
        ELSE LET r == rotate_left(Lifting(h, h.right[h.left[n]]), h.left[n]) IN
             IF r.err # "ok" THEN r
             ELSE Fixed(rotate_right([r.h EXCEPT !.left[n] = r.n], n), n)
    ELSE IF h.bf[n] > 2 THEN
        IF h.right[n] = Nil THEN Raise(h, "AssertionError")
        ELSE IF h.bf[h.right[n]] >= 0 THEN Fixed(rotate_left(h, n), n)
        ELSE LET r == rotate_right(Lifting(h, h.left[h.right[n]]), h.right[n]) IN
             IF r.err # "ok" THEN r
             ELSE Fixed(rotate_left([r.h EXCEPT !.right[n] = r.n], n), n)
    ELSE Ok(h, n)

\* Variant of balance that takes the left-right case when the left child
\* leans left or is level, and the left-left case otherwise.
balance_swapped(h0, n) ==
    LET h == Balancing(h0, n) IN
    IF h.bf[n] < -1 THEN
        IF h.left[n] = Nil THEN Raise(h, "AssertionError")
        ELSE IF h.bf[h.left[n]] > 0 THEN Fixed(rotate_right(h, n), n)
        ELSE LET r == rotate_left(Lifting(h, h.right[h.left[n]]), h.left[n]) IN
             IF r.err # "ok" THEN r
             ELSE Fixed(rotate_right([r.h EXCEPT !.left[n] = r.n], n), n)
    ELSE IF h.bf[n] > 1 THEN
        IF h.right[n] = Nil THEN Raise(h, "AssertionError")
        ELSE IF h.bf[h.right[n]] >= 0 THEN Fixed(rotate_left(h, n), n)
        ELSE LET r == rotate_right(Lifting(h, h.left[h.right[n]]), h.right[n]) IN
             IF r.err # "ok" THEN r
             ELSE Fixed(rotate_left([r.h EXCEPT !.right[n] = r.n], n), n)
    ELSE Ok(h, n)

\* Variant of balance that does not store the result of the inner rotation
\* of the left-right case.
balance_inner_unstored(h0, n) ==
    LET h == Balancing(h0, n) IN
    IF h.bf[n] < -1 THEN
        IF h.left[n] = Nil THEN Raise(h, "AssertionError")
        ELSE IF h.bf[h.left[n]] <= 0 THEN Fixed(rotate_right(h, n), n)
        ELSE LET r == rotate_left(Lifting(h, h.right[h.left[n]]), h.left[n]) IN
             IF r.err # "ok" THEN r
             ELSE Fixed(rotate_right(r.h, n), n)
    ELSE IF h.bf[n] > 1 THEN
        IF h.right[n] = Nil THEN Raise(h, "AssertionError")
        ELSE IF h.bf[h.right[n]] >= 0 THEN Fixed(rotate_left(h, n), n)
        ELSE LET r == rotate_right(Lifting(h, h.left[h.right[n]]), h.right[n]) IN
             IF r.err # "ok" THEN r
             ELSE Fixed(rotate_left([r.h EXCEPT !.right[n] = r.n], n), n)
    ELSE Ok(h, n)

balance(h0, n) ==
    LET h == Balancing(h0, n) IN
    IF h.bf[n] < -1 THEN
        IF h.left[n] = Nil THEN Raise(h, "AssertionError")
        ELSE IF h.bf[h.left[n]] <= 0 THEN Fixed(rotate_right(h, n), n)
        ELSE LET r == rotate_left(Lifting(h, h.right[h.left[n]]), h.left[n]) IN
             IF r.err # "ok" THEN r
             ELSE Fixed(rotate_right([r.h EXCEPT !.left[n] = r.n], n), n)
    ELSE IF h.bf[n] > 1 THEN
        IF h.right[n] = Nil THEN Raise(h, "AssertionError")
        ELSE IF h.bf[h.right[n]] >= 0 THEN Fixed(rotate_left(h, n), n)
        ELSE LET r == rotate_right(Lifting(h, h.left[h.right[n]]), h.right[n]) IN
             IF r.err # "ok" THEN r
             ELSE Fixed(rotate_left([r.h EXCEPT !.right[n] = r.n], n), n)
    ELSE Ok(h, n)

\* Variant of the test of Node.insert that takes any change of the child's
\* bf for growth.
InsertGrew_any_change(old_bf, new_bf) == new_bf # old_bf

\* Variant of the test of Node.insert that always reports growth.
InsertGrew_always(old_bf, new_bf) == TRUE

\* Variant of the test of Node.insert that looks at the new bf only.
InsertGrew_nonzero(old_bf, new_bf) == new_bf # 0

\* The test of Node.insert on the child's bf before and after the recursion.
InsertGrew(old_bf, new_bf) ==
    \/ old_bf <= 0 /\ new_bf < old_bf
    \/ old_bf >= 0 /\ new_bf > old_bf

RECURSIVE Node_insert(_, _, _)

\* Variant of Node.insert without the equality test: an equal value is sent
\* to the right subtree.
Node_insert_dup(h, n, val) ==
    IF val < h.value[n] THEN
        IF h.left[n] = Nil THEN
            LET a == NewNode(h, val)
                h1 == [a.h EXCEPT !.left[n] = a.n]
                h2 == [h1 EXCEPT !.bf[n] = @ - 1]
            IN  balance(h2, n)
        ELSE
            LET old_bf == h.bf[h.left[n]]
                r == Node_insert(h, h.left[n], val)
            IN  IF r.err # "ok" THEN r
                ELSE LET h1 == [r.h EXCEPT !.left[n] = r.n]
                         grew == InsertGrew(old_bf, h1.bf[h1.left[n]])
                         hj == Judge(h, h.left[n], h1, h1.left[n], grew, 1)
                         h2 == IF grew THEN [hj EXCEPT !.bf[n] = @ - 1] ELSE hj
                     IN  balance(h2, n)
    ELSE
        IF h.right[n] = Nil THEN
            LET a == NewNode(h, val)
                h1 == [a.h EXCEPT !.right[n] = a.n]
                h2 == [h1 EXCEPT !.bf[n] = @ + 1]
            IN  balance(h2, n)
        ELSE
            LET old_bf == h.bf[h.right[n]]
                r == Node_insert(h, h.right[n], val)
            IN  IF r.err # "ok" THEN r
                ELSE LET h1 == [r.h EXCEPT !.right[n] = r.n]
                         grew == InsertGrew(old_bf, h1.bf[h1.right[n]])
                         hj == Judge(h, h.right[n], h1, h1.right[n], grew, 1)
                         h2 == IF grew THEN [hj EXCEPT !.bf[n] = @ + 1] ELSE hj
                     IN  balance(h2, n)

Node_insert(h, n, val) ==
    IF val = h.value[n] THEN Raise(h, "RuntimeError")
    ELSE IF val < h.value[n] THEN
        IF h.left[n] = Nil THEN
            LET a == NewNode(h, val)
                h1 == [a.h EXCEPT !.left[n] = a.n]
                h2 == [h1 EXCEPT !.bf[n] = @ - 1]
            IN  balance(h2, n)
        ELSE
            LET old_bf == h.bf[h.left[n]]
                r == Node_insert(h, h.left[n], val)
            IN  IF r.err # "ok" THEN r
                ELSE LET h1 == [r.h EXCEPT !.left[n] = r.n]
                         grew == InsertGrew(old_bf, h1.bf[h1.left[n]])
                         hj == Judge(h, h.left[n], h1, h1.left[n], grew, 1)
                         h2 == IF grew THEN [hj EXCEPT !.bf[n] = @ - 1] ELSE hj
                     IN  balance(h2, n)
    ELSE IF val > h.value[n] THEN
        IF h.right[n] = Nil THEN
            LET a == NewNode(h, val)
                h1 == [a.h EXCEPT !.right[n] = a.n]
                h2 == [h1 EXCEPT !.bf[n] = @ + 1]
            IN  balance(h2, n)
        ELSE
            LET old_bf == h.bf[h.right[n]]
                r == Node_insert(h, h.right[n], val)
            IN  IF r.err # "ok" THEN r
                ELSE LET h1 == [r.h EXCEPT !.right[n] = r.n]
                         grew == InsertGrew(old_bf, h1.bf[h1.right[n]])
                         hj == Judge(h, h.right[n], h1, h1.right[n], grew, 1)
                         h2 == IF grew THEN [hj EXCEPT !.bf[n] = @ + 1] ELSE hj
                     IN  balance(h2, n)
    ELSE balance(h, n)

\* Variant of the test of Node.delete that does not look at the old bf.
DeleteShrank_any_zero(h, c, old_bf) ==
    \/ c = Nil
    \/ h.bf[c] = 0

\* The test of Node.delete after the recursion: c is the child slot's new
\* content, old_bf the bf of the node that was in that slot before.
DeleteShrank(h, c, old_bf) ==
    \/ c = Nil
    \/ Abs(old_bf) = 1 /\ h.bf[c] = 0

RECURSIVE Node_delete(_, _, _)

\* Variant of Node.delete that returns a childless target node itself.
Node_delete_keep_leaf(h, n, val) ==
    IF val < h.value[n] THEN
        IF h.left[n] = Nil THEN Raise(h, "RuntimeError")
        ELSE
            LET old_bf == h.bf[h.left[n]]
                r == Node_delete(h, h.left[n], val)
            IN  IF r.err # "ok" THEN r
                ELSE LET h1 == [r.h EXCEPT !.left[n] = r.n]
                         shrank == DeleteShrank(h1, h1.left[n], old_bf)
                         hj == Judge(h, h.left[n], h1, h1.left[n], shrank, 0 - 1)
                         h2 == IF shrank THEN [hj EXCEPT !.bf[n] = @ + 1] ELSE hj
                     IN  balance(h2, n)
    ELSE IF val > h.value[n] THEN
        IF h.right[n] = Nil THEN Raise(h, "RuntimeError")
        ELSE
            LET old_bf == h.bf[h.right[n]]
                r == Node_delete(h, h.right[n], val)
            IN  IF r.err # "ok" THEN r
                ELSE LET h1 == [r.h EXCEPT !.right[n] = r.n]
                         shrank == DeleteShrank(h1, h1.right[n], old_bf)
                         hj == Judge(h, h.right[n], h1, h1.right[n], shrank, 0 - 1)
                         h2 == IF shrank THEN [hj EXCEPT !.bf[n] = @ - 1] ELSE hj
                     IN  balance(h2, n)
    ELSE
        IF h.left[n] = Nil THEN Ok(h, IF h.right[n] = Nil THEN n ELSE h.right[n])
        ELSE IF h.right[n] = Nil THEN Ok(h, h.left[n])
        ELSE
            LET successor_val == find_max(h, h.left[n])
                h0 == [h EXCEPT !.value[n] = successor_val]
                old_bf == h0.bf[h0.left[n]]
                r == Node_delete(h0, h0.left[n], successor_val)
            IN  IF r.err # "ok" THEN r
                ELSE LET h1 == [r.h EXCEPT !.left[n] = r.n]
                         shrank == DeleteShrank(h1, h1.left[n], old_bf)
                         hj == Judge(h0, h0.left[n], h1, h1.left[n], shrank, 0 - 1)
                         h2 == IF shrank THEN [hj EXCEPT !.bf[n] = @ + 1] ELSE hj
                     IN  balance(h2, n)

\* Variant of Node.delete that does not overwrite the value of a target with
\* two children.
Node_delete_no_overwrite(h, n, val) ==
    IF val < h.value[n] THEN
        IF h.left[n] = Nil THEN Raise(h, "RuntimeError")
        ELSE
            LET old_bf == h.bf[h.left[n]]
                r == Node_delete(h, h.left[n], val)
            IN  IF r.err # "ok" THEN r
                ELSE LET h1 == [r.h EXCEPT !.left[n] = r.n]
                         shrank == DeleteShrank(h1, h1.left[n], old_bf)
                         hj == Judge(h, h.left[n], h1, h1.left[n], shrank, 0 - 1)
                         h2 == IF shrank THEN [hj EXCEPT !.bf[n] = @ + 1] ELSE hj
                     IN  balance(h2, n)
    ELSE IF val > h.value[n] THEN
        IF h.right[n] = Nil THEN Raise(h, "RuntimeError")
        ELSE
            LET old_bf == h.bf[h.right[n]]
                r == Node_delete(h, h.right[n], val)
            IN  IF r.err # "ok" THEN r
                ELSE LET h1 == [r.h EXCEPT !.right[n] = r.n]
                         shrank == DeleteShrank(h1, h1.right[n], old_bf)
                         hj == Judge(h, h.right[n], h1, h1.right[n], shrank, 0 - 1)
                         h2 == IF shrank THEN [hj EXCEPT !.bf[n] = @ - 1] ELSE hj
                     IN  balance(h2, n)
    ELSE
        IF h.left[n] = Nil THEN Ok(h, h.right[n])
        ELSE IF h.right[n] = Nil THEN Ok(h, h.left[n])
        ELSE
            LET successor_val == find_max(h, h.left[n])
                h0 == h
                old_bf == h0.bf[h0.left[n]]
                r == Node_delete(h0, h0.left[n], successor_val)
            IN  IF r.err # "ok" THEN r
                ELSE LET h1 == [r.h EXCEPT !.left[n] = r.n]
                         shrank == DeleteShrank(h1, h1.left[n], old_bf)
                         hj == Judge(h0, h0.left[n], h1, h1.left[n], shrank, 0 - 1)
                         h2 == IF shrank THEN [hj EXCEPT !.bf[n] = @ + 1] ELSE hj
                     IN  balance(h2, n)

Node_delete(h, n, val) ==
    IF val < h.value[n] THEN
        IF h.left[n] = Nil THEN Raise(h, "RuntimeError")
        ELSE
            LET old_bf == h.bf[h.left[n]]
                r == Node_delete(h, h.left[n], val)
            IN  IF r.err # "ok" THEN r
                ELSE LET h1 == [r.h EXCEPT !.left[n] = r.n]
                         shrank == DeleteShrank(h1, h1.left[n], old_bf)
                         hj == Judge(h, h.left[n], h1, h1.left[n], shrank, 0 - 1)
                         h2 == IF shrank THEN [hj EXCEPT !.bf[n] = @ + 1] ELSE hj
                     IN  balance(h2, n)
    ELSE IF val > h.value[n] THEN
        IF h.right[n] = Nil THEN Raise(h, "RuntimeError")
        ELSE
            LET old_bf == h.bf[h.right[n]]
                r == Node_delete(h, h.right[n], val)
            IN  IF r.err # "ok" THEN r
                ELSE LET h1 == [r.h EXCEPT !.right[n] = r.n]
                         shrank == DeleteShrank(h1, h1.right[n], old_bf)
                         hj == Judge(h, h.right[n], h1, h1.right[n], shrank, 0 - 1)
                         h2 == IF shrank THEN [hj EXCEPT !.bf[n] = @ - 1] ELSE hj
                     IN  balance(h2, n)
    ELSE
        IF h.left[n] = Nil THEN Ok(h, h.right[n])
        ELSE IF h.right[n] = Nil THEN Ok(h, h.left[n])
        ELSE
            LET successor_val == find_max(h, h.left[n])
                h0 == [h EXCEPT !.value[n] = successor_val]
                old_bf == h0.bf[h0.left[n]]
                r == Node_delete(h0, h0.left[n], successor_val)
            IN  IF r.err # "ok" THEN r
                ELSE LET h1 == [r.h EXCEPT !.left[n] = r.n]
                         shrank == DeleteShrank(h1, h1.left[n], old_bf)
                         hj == Judge(h0, h0.left[n], h1, h1.left[n], shrank, 0 - 1)
                         h2 == IF shrank THEN [hj EXCEPT !.bf[n] = @ + 1] ELSE hj
                     IN  balance(h2, n)

----------------------------------------------------------------------------
(* BSTree methods.  A tree t is [root, h]: the root reference and the heap. *)

RECURSIVE Reach(_, _)
Reach(h, n) ==
    IF n = Nil THEN {} ELSE {n} \cup Reach(h, h.left[n]) \cup Reach(h, h.right[n])

\* Nodes no longer referenced from the root are freed by the runtime.
collect(t) == [t EXCEPT !.h.live = Reach(t.h, t.root)]

BSTree_len(t) == IF t.root = Nil THEN 0 ELSE Node_len(t.h, t.root)

BSTree_bool(t) == t.root # Nil

BSTree_iter(t) == IF t.root = Nil THEN <<>> ELSE Node_iter(t.h, t.root)

BSTree_reversed(t) == IF t.root = Nil THEN <<>> ELSE Node_reversed(t.h, t.root)

\* Variant of __getitem__ that numbers the reverse traversal from 0, not -1.
getitem_from0(t, pos) ==
    LET s == IF pos < 0 THEN BSTree_reversed(t) ELSE BSTree_iter(t)
        hits == {i \in 0..(Len(s) - 1) : (IF pos < 0 THEN 0 - i ELSE i) = pos}
    IN  IF hits # {}
        THEN [err |-> "ok", val |-> s[(CHOOSE i \in hits : \A j \in hits : i <= j) + 1]]
        ELSE [err |-> "IndexError", val |-> None]

\* enumerate(...) stops at the first i whose position matches pos.
getitem(t, pos) ==
    LET s == IF pos < 0 THEN BSTree_reversed(t) ELSE BSTree_iter(t)
        hits == {i \in 0..(Len(s) - 1) : (IF pos < 0 THEN (0 - i) - 1 ELSE i) = pos}
    IN  IF hits # {}
        THEN [err |-> "ok", val |-> s[(CHOOSE i \in hits : \A j \in hits : i <= j) + 1]]
        ELSE [err |-> "IndexError", val |-> None]

\* Variant of BSTree.insert without the None test.
insert_any(t, val) ==
    IF t.root = Nil THEN
        LET a == NewNode(t.h, val)
        IN  [t |-> [root |-> a.n, h |-> a.h], ret |-> "True"]
    ELSE
        LET r == Node_insert(t.h, t.root, val)
        IN  IF r.err # "ok"
            THEN [t |-> collect([root |-> t.root, h |-> r.h]), ret |-> "False"]
            ELSE [t |-> collect([root |-> r.n, h |-> r.h]), ret |-> "True"]

\* Variant of BSTree.insert that does not store the node made for an empty
\* tree.
insert_unstored(t, val) ==
    IF val = None THEN [t |-> t, ret |-> "False"]
    ELSE IF t.root = Nil THEN
        LET a == NewNode(t.h, val)
        IN  [t |-> collect([root |-> Nil, h |-> a.h]), ret |-> "True"]
    ELSE
        LET r == Node_insert(t.h, t.root, val)
        IN  IF r.err # "ok"
            THEN [t |-> collect([root |-> t.root, h |-> r.h]), ret |-> "False"]
            ELSE [t |-> collect([root |-> r.n, h |-> r.h]), ret |-> "True"]

insert(t, val) ==
    IF val = None THEN [t |-> t, ret |-> "False"]
    ELSE IF t.root = Nil THEN
        LET a == NewNode(t.h, val)
        IN  [t |-> [root |-> a.n, h |-> a.h], ret |-> "True"]
    ELSE
        LET r == Node_insert(t.h, t.root, val)
        IN  IF r.err # "ok"
            THEN [t |-> collect([root |-> t.root, h |-> r.h]), ret |-> "False"]
            ELSE [t |-> collect([root |-> r.n, h |-> r.h]), ret |-> "True"]

\* Variant of BSTree.delete that does not store the returned subtree root.
delete_unstored(t, val) ==
    IF val = None THEN [t |-> t, ret |-> "False"]
    ELSE IF t.root = Nil THEN [t |-> t, ret |-> "False"]
    ELSE
        LET r == Node_delete(t.h, t.root, val)
        IN  IF r.err # "ok"
            THEN [t |-> collect([root |-> t.root, h |-> r.h]), ret |-> "False"]
            ELSE [t |-> collect([root |-> t.root, h |-> r.h]), ret |-> "True"]

\* Variant of BSTree.delete in which a failed Node.delete yields no node and
\* that result is stored as the root.
delete_store_failed(t, val) ==
    IF val = None THEN [t |-> t, ret |-> "False"]
    ELSE IF t.root = Nil THEN [t |-> t, ret |-> "False"]
    ELSE
        LET r == Node_delete(t.h, t.root, val)
        IN  IF r.err # "ok"
            THEN [t |-> collect([root |-> r.n, h |-> r.h]), ret |-> "False"]
            ELSE [t |-> collect([root |-> r.n, h |-> r.h]), ret |-> "True"]

delete(t, val) ==
    IF val = None THEN [t |-> t, ret |-> "False"]
    ELSE IF t.root = Nil THEN [t |-> t, ret |-> "False"]
    ELSE
        LET r == Node_delete(t.h, t.root, val)
        IN  IF r.err # "ok"
            THEN [t |-> collect([root |-> t.root, h |-> r.h]), ret |-> "False"]
            ELSE [t |-> collect([root |-> r.n, h |-> r.h]), ret |-> "True"]

\* Variant of __setitem__ that does not delete the old value.
setitem_no_delete(t, pos, val) ==
    LET g == getitem(t, pos)
    IN  IF g.err # "ok" THEN [t |-> t, ret |-> g.err]
        ELSE [t |-> insert(t, val).t, ret |-> "None"]

\* Variant of __setitem__ that inserts before it looks the position up.
setitem_insert_first(t, pos, val) ==
    LET i == insert(t, val)
        g == getitem(i.t, pos)
    IN  IF g.err # "ok" THEN [t |-> i.t, ret |-> g.err]
        ELSE [t |-> delete(i.t, g.val).t, ret |-> "None"]

\* self.delete(...) has returned, with the tree d.t, before self.insert(...)
\* is called on it.
setitem(t, pos, val) ==
    LET g == getitem(t, pos)
    IN  IF g.err # "ok" THEN [t |-> t, ret |-> g.err]
        ELSE Once({[t |-> insert(d.t, val).t, ret |-> "None"] :
                       d \in {delete(t, g.val)}})

RECURSIVE init_loop(_, _)

\* Variant of the constructor's loop that stops at the first insert that
\* returns False.
init_loop_break(t, lst) ==
    IF lst = <<>> THEN t
    ELSE LET r == insert(t, Head(lst))
         IN  IF r.ret = "False" THEN r.t ELSE init_loop(r.t, Tail(lst))

\* for val in iterable: self.insert(val)
init_loop(t, lst) ==
    IF lst = <<>> THEN t ELSE init_loop(insert(t, Head(lst)).t, Tail(lst))

\* The loop of __contains__ from node n on.  Comparing None with a stored
\* value raises TypeError.
RECURSIVE contains_from(_, _, _)

\* Variant of the __contains__ loop with the two descents exchanged.
contains_from_swapped(h, n, val) ==
    IF n = Nil THEN "False"
    ELSE IF val = None THEN "TypeError"
    ELSE IF val < h.value[n] THEN contains_from(h, h.right[n], val)
    ELSE IF val > h.value[n] THEN contains_from(h, h.left[n], val)
    ELSE "True"

contains_from(h, n, val) ==
    IF n = Nil THEN "False"
    ELSE IF val = None THEN "TypeError"
    ELSE IF val < h.value[n] THEN contains_from(h, h.left[n], val)
    ELSE IF val > h.value[n] THEN contains_from(h, h.right[n], val)
    ELSE "True"

contains(t, val) == contains_from(t.h, t.root, val)

\* Variant of index that counts positions from 1.
index_from1(t, val) ==
    LET s == BSTree_iter(t)
        hits == {i \in 0..(Len(s) - 1) : s[i + 1] = val}
    IN  IF hits # {}
        THEN [err |-> "ok", val |-> (CHOOSE i \in hits : \A j \in hits : i <= j) + 1]
        ELSE [err |-> "ValueError", val |-> None]

index(t, val) ==
    LET s == BSTree_iter(t)
        hits == {i \in 0..(Len(s) - 1) : s[i + 1] = val}
    IN  IF hits # {}
        THEN [err |-> "ok", val |-> CHOOSE i \in hits : \A j \in hits : i <= j]
        ELSE [err |-> "ValueError", val |-> None]

----------------------------------------------------------------------------
(* State machine *)

\* The tree held in the variables, and a copy of it for `pre`.
\* self.root = None, before any node exists.
EmptyTree ==
    [root |-> Nil,
     h |-> [left |-> [k \in NodeIds |-> Nil], right |-> [k \in NodeIds |-> Nil],
            value |-> [k \in NodeIds |-> None], bf |-> [k \in NodeIds |-> 0],
            live |-> {}, obs |-> NoObs]]

\* BSTree(iterable)
BSTree_init(lst) == init_loop(EmptyTree, lst)

Tree == [root |-> root,
         h |-> [left |-> left, right |-> right, value |-> value, bf |-> bf,
                live |-> Reach([left |-> left, right |-> right], root),
                obs |-> NoObs]]

\* The tree before the last call, in the form the methods take.
PreTree == [root |-> pre.root,
            h |-> [left |-> pre.left, right |-> pre.right, value |-> pre.value,
                   bf |-> pre.bf, live |-> Reach(pre, pre.root), obs |-> NoObs]]

Snap == [root |-> root, left |-> left, right |-> right, value |-> value, bf |-> bf]

RECURSIVE Preorder(_, _)
Preorder(h, n) ==
    IF n = Nil THEN <<>> ELSE <<n>> \o Preorder(h, h.left[n]) \o Preorder(h, h.right[n])

\* The tree with its nodes renumbered 1..n in preorder; freed ids are blank.
Canon(t) ==
    LET ord == Preorder(t.h, t.root)
        num(n) == IF n = Nil THEN Nil ELSE CHOOSE k \in 1..Len(ord) : ord[k] = n
    IN  [root |-> num(t.root),
         left |-> [k \in NodeIds |-> IF k <= Len(ord) THEN num(t.h.left[ord[k]]) ELSE Nil],
         right |-> [k \in NodeIds |-> IF k <= Len(ord) THEN num(t.h.right[ord[k]]) ELSE Nil],
         value |-> [k \in NodeIds |-> IF k <= Len(ord) THEN t.h.value[ord[k]] ELSE None],
         bf |-> [k \in NodeIds |-> IF k <= Len(ord) THEN t.h.bf[ord[k]] ELSE 0]]

\* A public call returns: the tree is t, the call and its outcome are recorded.
Return(t, o, a, i, r, rv) ==
    \E c \in {Canon(t)} :
        /\ root' = c.root /\ left' = c.left /\ right' = c.right
        /\ value' = c.value /\ bf' = c.bf
        /\ op' = o /\ arg' = a /\ idx' = i /\ ret' = r /\ retval' = rv
        /\ obs' = [t.h.obs EXCEPT !.focus = Nil, !.inner = Nil]
        /\ pre' = Snap

\* A traversal has been run to its end and yielded the sequence q.
Yield(o, q) ==
    /\ Return(Tree, o, None, 0, "None", None)
    /\ out' = q
    /\ UNCHANGED iterable

Init ==
    /\ root = Nil
    /\ left = [k \in NodeIds |-> Nil]
    /\ right = [k \in NodeIds |-> Nil]
    /\ value = [k \in NodeIds |-> None]
    /\ bf = [k \in NodeIds |-> 0]
    /\ op = "init" /\ arg = None /\ idx = 0 /\ ret = "None" /\ retval = None
    /\ out = <<>> /\ iterable = <<>> /\ obs = NoObs
    /\ pre = [root |-> Nil,
              left |-> [k \in NodeIds |-> Nil], right |-> [k \in NodeIds |-> Nil],
              value |-> [k \in NodeIds |-> None], bf |-> [k \in NodeIds |-> 0]]

Insert(v) ==
    \E r \in {insert(Tree, v)} :
        /\ Return(r.t, "insert", v, 0, r.ret, None)
        /\ out' = <<>> /\ UNCHANGED iterable

Delete(v) ==
    \E r \in {delete(Tree, v)} :
        /\ Return(r.t, "delete", v, 0, r.ret, None)
        /\ out' = <<>> /\ UNCHANGED iterable

\* Variant of the __getitem__ call that removes the value it returns.
Get_pop(i) ==
    \E g \in {getitem(Tree, i)} :
        /\ Return(IF g.err = "ok" THEN delete(Tree, g.val).t ELSE Tree,
                  "get", None, i, IF g.err = "ok" THEN "value" ELSE g.err, g.val)
        /\ out' = <<>> /\ UNCHANGED iterable

Get(i) ==
    \E g \in {getitem(Tree, i)} :
        /\ Return(Tree, "get", None, i, IF g.err = "ok" THEN "value" ELSE g.err, g.val)
        /\ out' = <<>> /\ UNCHANGED iterable

Set(i, v) ==
    \E s \in {setitem(Tree, i, v)} :
        /\ Return(s.t, "set", v, i, s.ret, None)
        /\ out' = <<>> /\ UNCHANGED iterable

Index(v) ==
    \E r \in {index(Tree, v)} :
        /\ Return(Tree, "index", v, 0, IF r.err = "ok" THEN "value" ELSE r.err, r.val)
        /\ out' = <<>> /\ UNCHANGED iterable

Contains(v) ==
    /\ Return(Tree, "contains", v, 0, contains(Tree, v), None)
    /\ out' = <<>> /\ UNCHANGED iterable

Length ==
    /\ Return(Tree, "len", None, 0, "value", BSTree_len(Tree))
    /\ out' = <<>> /\ UNCHANGED iterable

\* self.root.find_min() and self.root.find_max(), on a tree that has a root.
FindMin ==
    /\ root # Nil
    /\ Return(Tree, "find_min", None, 0, "value", find_min(Tree.h, root))
    /\ out' = <<>> /\ UNCHANGED iterable

FindMax ==
    /\ root # Nil
    /\ Return(Tree, "find_max", None, 0, "value", find_max(Tree.h, root))
    /\ out' = <<>> /\ UNCHANGED iterable

Iterate == Yield("iter", BSTree_iter(Tree))

Reversed == Yield("reversed", BSTree_reversed(Tree))

Next ==
    \/ \E v \in Values \cup {None} : Insert(v)
    \/ \E v \in Values \cup {None} : Delete(v)
    \/ \E i \in Indices : Get(i)
    \/ \E i \in Indices : \E v \in Values \cup {None} : Set(i, v)
    \/ \E v \in Values \cup {None} : Index(v)
    \/ \E v \in Values \cup {None} : Contains(v)
    \/ Length
    \/ Iterate
    \/ Reversed
    \/ FindMin
    \/ FindMax

Spec == Init /\ [][Next]_vars

\* Insert and delete only, over a larger value range, to reach deep trees.
NextDeep ==
    \/ \E v \in Keys \cup {None} : Insert(v)
    \/ \E v \in Keys \cup {None} : Delete(v)

SpecDeep == Init /\ [][NextDeep]_vars

\* Insert and delete over a still larger value range.  Only the kind of the
\* last successful call is recorded, so that trees of eleven nodes, where
\* every branch of the bf bookkeeping of delete decides something, are reached.
Unrecorded(t, o) ==
    \E c \in {Canon(t)} :
        /\ root' = c.root /\ left' = c.left /\ right' = c.right
        /\ value' = c.value /\ bf' = c.bf
        /\ op' = o
        /\ UNCHANGED <<arg, idx, ret, retval, out, iterable, obs, pre>>

TallInsert(v) ==
    \E r \in {insert(Tree, v)} :
        Unrecorded(r.t, IF r.ret = "True" THEN "insert" ELSE op)

TallDelete(v) ==
    \E r \in {delete(Tree, v)} :
        Unrecorded(r.t, IF r.ret = "True" THEN "delete" ELSE op)

NextTall ==
    \/ \E v \in TallKeys : TallInsert(v)
    \/ \E v \in TallKeys : TallDelete(v)

SpecTall == Init /\ [][NextTall]_vars

\* Insert and delete over MaxGrow values, unrecorded, and from every tree so
\* reached one delete recorded in full, after which the run ends: every
\* delete on every tree of up to MaxGrow nodes is observed.
Unwatched == arg = None

GrowInsert(v) == Unwatched /\ TallInsert(v)

GrowDelete(v) == Unwatched /\ TallDelete(v)

WatchedDelete(v) == Unwatched /\ Delete(v)

NextShrink ==
    \/ \E v \in GrowKeys : GrowInsert(v)
    \/ \E v \in GrowKeys : GrowDelete(v)
    \/ \E v \in GrowKeys : WatchedDelete(v)

SpecShrink == Init /\ [][NextShrink]_vars

\* The constructor applied to every list of at most MaxLen values: the
\* initial state holds the argument, Construct runs BSTree(iterable).
InitNew ==
    /\ root = Nil
    /\ left = [k \in NodeIds |-> Nil]
    /\ right = [k \in NodeIds |-> Nil]
    /\ value = [k \in NodeIds |-> None]
    /\ bf = [k \in NodeIds |-> 0]
    /\ op = "new" /\ arg = None /\ idx = 0 /\ ret = "None" /\ retval = None
    /\ out = <<>> /\ iterable \in Lists /\ obs = NoObs
    /\ pre = Snap

Construct ==
    /\ op = "new"
    /\ Return(BSTree_init(iterable), "init", None, 0, "None", None)
    /\ out' = <<>> /\ UNCHANGED iterable

NextNew == Construct

SpecNew == InitNew /\ [][NextNew]_vars

\* Node methods applied to a subtree taken by itself.  The subtree has a
\* root n and a child b on one side, and below them three subtrees A, B, C
\* (in in-order position) of heights -1..MaxSub; every node's bf is its real
\* height difference, so bf of n ranges over -3..3.

\* A subtree of height k whose in-order values start at lo, added to heap h:
\* left-heavy ("L"), right-heavy ("R") or full ("F") at every node.
RECURSIVE Grow(_, _, _, _)
Grow(h, k, shape, lo) ==
    IF k < 0 THEN [h |-> h, n |-> Nil, next |-> lo]
    ELSE LET kl == IF shape = "R" THEN Max(k - 2, 0 - 1) ELSE k - 1
             kr == IF shape = "L" THEN Max(k - 2, 0 - 1) ELSE k - 1
             l == Grow(h, kl, shape, lo)
             a == NewNode(l.h, l.next)
             r == Grow(a.h, kr, shape, l.next + 1)
         IN  [h |-> [r.h EXCEPT !.left[a.n] = l.n, !.right[a.n] = r.n,
                                !.bf[a.n] = kr - kl],
              n |-> a.n, next |-> r.next]

\* n with b as its right child (side = "right": A under n, B and C under b)
\* or as its left child (side = "left": A and B under b, C under n).
Subtree(side, hs, ss) ==
    LET A == Grow(EmptyTree.h, hs[1], ss[1], 1)
        x == NewNode(A.h, A.next)
        B == Grow(x.h, hs[2], ss[2], A.next + 1)
        y == NewNode(B.h, B.next)
        C == Grow(y.h, hs[3], ss[3], B.next + 1)
    IN  IF side = "right"
        THEN [root |-> x.n,
              h |-> [C.h EXCEPT !.left[x.n] = A.n, !.right[x.n] = y.n,
                                !.left[y.n] = B.n, !.right[y.n] = C.n,
                                !.bf[y.n] = hs[3] - hs[2],
                                !.bf[x.n] = 1 + Max(hs[2], hs[3]) - hs[1]]]
        ELSE [root |-> y.n,
              h |-> [C.h EXCEPT !.left[y.n] = x.n, !.right[y.n] = C.n,
                                !.left[x.n] = A.n, !.right[x.n] = B.n,
                                !.bf[x.n] = hs[2] - hs[1],
                                !.bf[y.n] = hs[3] - (1 + Max(hs[1], hs[2]))]]

InitNode ==
    \E side \in {"left", "right"}, hs \in [1..3 -> SubHeights],
       ss \in [1..3 -> Shapes] :
        \E c \in {Canon(Subtree(side, hs, ss))} :
            /\ root = c.root /\ left = c.left /\ right = c.right
            /\ value = c.value /\ bf = c.bf
            /\ op = "node" /\ arg = None /\ idx = 0 /\ ret = "None"
            /\ retval = None
            /\ out = <<>> /\ iterable = <<>> /\ obs = NoObs
            /\ pre = c

\* A node method that returns the subtree's new root has run on the root.
Returned(r, name) ==
    /\ Return([root |-> IF r.err = "ok" THEN r.n ELSE root, h |-> r.h],
              name, None, 0, r.err, None)
    /\ out' = <<>> /\ UNCHANGED iterable

RotateLeft ==
    /\ op = "node"
    /\ \E r \in {rotate_left(Tree.h, root)} : Returned(r, "rotate_left")

RotateRight ==
    /\ op = "node"
    /\ \E r \in {rotate_right(Tree.h, root)} : Returned(r, "rotate_right")

Balance ==
    /\ op = "node"
    /\ \E r \in {balance(Tree.h, root)} : Returned(r, "balance")

NextNode == RotateLeft \/ RotateRight \/ Balance

SpecNode == InitNode /\ [][NextNode]_vars

----------------------------------------------------------------------------
(* Ground truth used by the properties, computed from the links only *)

\* A tree snapshot s is a record with root, left, right, value, bf.
NodesOf(s) == Reach(s, s.root)
ValueSet(s) == {s.value[n] : n \in NodesOf(s)}

\* Height recomputed from scratch; an absent subtree has height -1.
RECURSIVE TrueHeight(_, _)
TrueHeight(s, n) ==
    IF n = Nil THEN -1
    ELSE 1 + Max(TrueHeight(s, s.left[n]), TrueHeight(s, s.right[n]))

\* The k-th smallest element (0-based) of a set of integers.
Kth(S, k) == CHOOSE v \in S : Cardinality({w \in S : w < v}) = k

Ascending(q) == \A i \in 1..(Len(q) - 1) : q[i] < q[i + 1]

InRange(s, i) ==
    (0 - Cardinality(ValueSet(s))) <= i /\ i < Cardinality(ValueSet(s))

\* The value at rank i of snapshot s (i in range, either sign).
RankValue(s, i) ==
    Kth(ValueSet(s), IF i < 0 THEN Cardinality(ValueSet(s)) + i ELSE i)

----------------------------------------------------------------------------
(* Properties *)

\* C1: after any sequence of insert and delete calls, every node reachable
\* from the root stores a bf equal to height(right) - height(left) recomputed
\* from scratch, and that bf is -1, 0 or 1.
C1_BalanceInvariant ==
    \A n \in NodesOf(Snap) :
        /\ bf[n] = TrueHeight(Snap, right[n]) - TrueHeight(Snap, left[n])
        /\ bf[n] \in {-1, 0, 1}

\* C1 witness: a successful delete from a tree of eleven values that left a
\* tree of height three whose root leans to one side.
C1_Witness ==
    /\ op = "delete"
    /\ Cardinality(NodesOf(Snap)) >= 10
    /\ TrueHeight(Snap, root) = 3
    /\ bf[root] # 0

\* C2: after any sequence of insert and delete calls, every node's left
\* subtree holds only smaller values and its right subtree only larger ones,
\* and the in-order traversal is strictly ascending.
C2_OrderInvariant ==
    /\ \A n \in NodesOf(Snap) :
          /\ \A m \in Reach(Snap, left[n]) : value[m] < value[n]
          /\ \A m \in Reach(Snap, right[n]) : value[m] > value[n]
    /\ Ascending(BSTree_iter(Tree))

\* C2 witness: a delete of a value held by a node with two children whose
\* left subtree has more than one node.
C2_Witness ==
    /\ op = "delete" /\ ret = "True"
    /\ \E n \in NodesOf(pre) :
          /\ pre.value[n] = arg
          /\ pre.left[n] # Nil /\ pre.right[n] # Nil
          /\ Cardinality(Reach(pre, pre.left[n])) >= 2

\* C3: insert(v) returns true exactly when v is not None and was not in the
\* tree; after a true return the value set is the old set plus v; otherwise it
\* returns false.
C3_InsertContract ==
    op = "insert" =>
        /\ ret \in {"True", "False"}
        /\ (ret = "True") <=> (arg # None /\ arg \notin ValueSet(pre))
        /\ ret = "True" => ValueSet(Snap) = ValueSet(pre) \cup {arg}

\* C3 witness: a successful insert into a tree of at least three values.
C3_Witness ==
    /\ op = "insert" /\ ret = "True"
    /\ Cardinality(ValueSet(pre)) >= 3

\* C4: delete(v) returns true exactly when v was in the tree; after a true
\* return the value set is the old set minus v; otherwise it returns false,
\* also on the empty tree.
C4_DeleteContract ==
    op = "delete" =>
        /\ ret \in {"True", "False"}
        /\ (ret = "True") <=> (arg \in ValueSet(pre))
        /\ ret = "True" => ValueSet(Snap) = ValueSet(pre) \ {arg}

\* C4 witness: a successful delete of the root's value while the root has at
\* most one child.
C4_Witness ==
    /\ op = "delete" /\ ret = "True"
    /\ pre.root # Nil /\ pre.value[pre.root] = arg
    /\ (pre.left[pre.root] = Nil \/ pre.right[pre.root] = Nil)
    /\ Cardinality(NodesOf(pre)) = 2

\* C5: inserting a value that is already present leaves the tree unchanged:
\* same values, same links and same bf on every node.
C5_DuplicateInsertNoChange ==
    (op = "insert" /\ arg \in ValueSet(pre)) => Snap = pre

\* C5 witness: a rejected insert of a value held two levels below the root.
C5_Witness ==
    /\ op = "insert" /\ ret = "False" /\ arg # None
    /\ \E c \in {pre.left[pre.root], pre.right[pre.root]} :
          /\ c # Nil
          /\ \E g \in {pre.left[c], pre.right[c]} : g # Nil /\ pre.value[g] = arg

\* C6: a delete that returns false leaves the tree unchanged: same values,
\* same links and same bf on every node.
C6_FailedDeleteNoChange ==
    (op = "delete" /\ ret = "False") => Snap = pre

\* C6 witness: a failed delete of a non-None value on a tree of height at
\* least two.
C6_Witness ==
    /\ op = "delete" /\ ret = "False" /\ arg # None
    /\ TrueHeight(pre, pre.root) >= 2

\* C7: set(i, v) with i in range either completes (the old rank-i value is
\* gone and v is in the tree) or leaves the value set unchanged.
C7_SetAtomic ==
    (op = "set" /\ InRange(pre, idx)) =>
        \/ ValueSet(Snap) = ValueSet(pre)
        \/ /\ RankValue(pre, idx) \notin ValueSet(Snap)
           /\ arg \in ValueSet(Snap)

\* C8: get(i) on n values returns the i-th smallest for 0 <= i < n, the
\* (n+i)-th smallest for -n <= i < 0, and signals IndexError for any other i.
C8_GetContract ==
    op = "get" =>
        IF InRange(pre, idx)
        THEN ret = "value" /\ retval = RankValue(pre, idx)
        ELSE ret = "IndexError"

\* C8 witness: a get with a negative index other than -1 on three or more
\* values.
C8_Witness ==
    /\ op = "get" /\ ret = "value"
    /\ idx < -1 /\ Cardinality(ValueSet(pre)) >= 3

\* C9: set(i, v) with i out of range signals IndexError and leaves the tree
\* unchanged.
C9_SetOutOfRange ==
    (op = "set" /\ ~InRange(pre, idx)) => (ret = "IndexError" /\ Snap = pre)

\* C9 witness: an out-of-range set on a non-empty tree with a value that is
\* not None and not in the tree.
C9_Witness ==
    /\ op = "set" /\ ret = "IndexError"
    /\ pre.root # Nil /\ arg # None /\ arg \notin ValueSet(pre)

\* C10: index(v) returns the number of stored values smaller than v when v
\* is in the tree, and get of that rank returns v; otherwise it signals
\* ValueError.
C10_IndexContract ==
    op = "index" =>
        IF arg \in ValueSet(pre)
        THEN /\ ret = "value"
             /\ retval = Cardinality({w \in ValueSet(pre) : w < arg})
             /\ getitem(Tree, retval) = [err |-> "ok", val |-> arg]
        ELSE ret = "ValueError"

\* C10 witness: index of a value that has at least two smaller values.
C10_Witness ==
    /\ op = "index" /\ ret = "value" /\ retval >= 2

\* The elements of a set of integers in ascending order, and a sequence
\* read backwards.
SortedSeq(S) == [i \in 1..Cardinality(S) |-> Kth(S, i - 1)]
Backwards(q) == [i \in 1..Len(q) |-> q[Len(q) + 1 - i]]

C12_LengthContract ==
    /\ BSTree_len(Tree) = Len(BSTree_iter(Tree))
    /\ root = Nil => BSTree_len(Tree) = 0
    /\ op = "len" => (ret = "value" /\ retval = Len(BSTree_iter(Tree)))
    /\ op = "insert" =>
          BSTree_len(Tree) = BSTree_len(PreTree) + (IF ret = "True" THEN 1 ELSE 0)
    /\ op = "delete" =>
          BSTree_len(Tree) = BSTree_len(PreTree) - (IF ret = "True" THEN 1 ELSE 0)

\* C12 witness: length() returns three or more on a tree whose root has two
\* children.
C12_Witness ==
    /\ op = "len" /\ retval >= 3
    /\ left[root] # Nil /\ right[root] # Nil

\* C13: forward iteration yields every stored value once in ascending order,
\* reverse iteration yields the same values in the opposite order, both yield
\* nothing on the empty tree, and a second traversal of the same tree yields
\* the same sequence.
C13_IterationContract ==
    /\ op = "iter" =>
          /\ out = SortedSeq(ValueSet(Snap))
          /\ out = BSTree_iter(Tree)
    /\ op = "reversed" =>
          /\ out = Backwards(SortedSeq(ValueSet(Snap)))
          /\ out = Backwards(BSTree_iter(Tree))
          /\ out = BSTree_reversed(Tree)
    /\ (op \in {"iter", "reversed"} /\ root = Nil) => out = <<>>

\* C13 witness: a reverse iteration that yielded three or more values.
C13_Witness ==
    /\ op = "reversed" /\ Len(out) >= 3

\* C14: a tree built by the constructor from a list yields, in order, the
\* sorted list of the distinct values of that list: the sorted input when the
\* values are unique, each repeated value once otherwise.
C14_ConstructSorted ==
    op = "init" =>
        BSTree_iter(Tree) = SortedSeq({iterable[i] : i \in 1..Len(iterable)})

\* C14 witness: a tree constructed from four unique values given in an order
\* that is neither ascending nor descending.
C14_Witness ==
    /\ op = "init" /\ Len(iterable) = 4
    /\ Cardinality({iterable[i] : i \in 1..4}) = 4
    /\ iterable[1] > iterable[2] /\ iterable[2] < iterable[3]

\* The two invariants for an arbitrary snapshot s.
Balanced(s) ==
    \A n \in NodesOf(s) :
        /\ s.bf[n] = TrueHeight(s, s.right[n]) - TrueHeight(s, s.left[n])
        /\ s.bf[n] \in {-1, 0, 1}

Ordered(s) ==
    \A n \in NodesOf(s) :
        /\ \A m \in Reach(s, s.left[n]) : s.value[m] < s.value[n]
        /\ \A m \in Reach(s, s.right[n]) : s.value[m] > s.value[n]

\* C15: after insert(v) of a value v that was not in the tree T, delete(v)
\* succeeds and yields a tree with the value set and in-order sequence of T
\* that satisfies the order and balance invariants (its shape may differ).
C15_InsertDeleteRoundTrip ==
    (op = "insert" /\ ret = "True") =>
        LET d == delete(Tree, arg)
            c == Canon(d.t)
        IN  /\ d.ret = "True"
            /\ ValueSet(c) = ValueSet(pre)
            /\ BSTree_iter(d.t) = BSTree_iter(PreTree)
            /\ Ordered(c) /\ Balanced(c)

\* C15 witness: an insert into a tree of four or more values after which
\* deleting the same value gives a shape other than the one before the insert.
C15_Witness ==
    /\ op = "insert" /\ ret = "True"
    /\ Cardinality(NodesOf(pre)) >= 4
    /\ Canon(delete(Tree, arg).t) # pre

\* The least number of nodes of an AVL tree of height h (a single node has
\* height 0).
RECURSIVE AvlMinNodes(_)
AvlMinNodes(h) ==
    IF h < 0 THEN 0 ELSE 1 + AvlMinNodes(h - 1) + AvlMinNodes(h - 2)

\* The largest k with 2^k <= x, for 1 <= x < 2^31.
FloorLog2(x) == CHOOSE k \in 0..30 : 2^k <= x /\ (k = 30 \/ x < 2^(k + 1))

\* h <= 1.44 * log2(n + 2) - 0.33 is 100h + 33 <= 144 * log2(n + 2).  With
\* k = FloorLog2((n + 2)^8) we have k / 8 <= log2(n + 2), so 100h + 33 <= 18k
\* implies the bound.
WithinLogBound(n, h) == 100 * h + 33 <= 18 * FloorLog2((n + 2)^8)

\* C16: a tree of n >= 1 values has a height h (as Node.height computes it)
\* with n >= AvlMinNodes(h) and h <= 1.44 * log2(n + 2) - 0.33.
C16_HeightBound ==
    root # Nil =>
        /\ BSTree_len(Tree) >= AvlMinNodes(height(Tree.h, root))
        /\ WithinLogBound(BSTree_len(Tree), height(Tree.h, root))

\* C16 witness: after a successful delete, a tree of height three with the
\* least number of nodes that height allows.
C16_Witness ==
    /\ op = "delete" /\ root # Nil
    /\ height(Tree.h, root) = 3
    /\ BSTree_len(Tree) = AvlMinNodes(3)

\* C17: the tree is Empty (root absent) or Populated (root present), and root
\* is absent exactly when its length is 0; a successful insert ends
\* Populated, deleting the only value ends Empty, and deleting from a tree of
\* two or more values ends Populated.
C17_EmptyPopulated ==
    /\ BSTree_bool(Tree) <=> (BSTree_len(Tree) # 0)
    /\ (op = "insert" /\ ret = "True") => BSTree_bool(Tree)
    /\ (op = "delete" /\ ret = "True" /\ BSTree_len(PreTree) = 1)
           => ~BSTree_bool(Tree)
    /\ (op = "delete" /\ ret = "True" /\ BSTree_len(PreTree) >= 2)
           => BSTree_bool(Tree)

\* C17 witness: a successful delete of the only value, ending Empty.
C17_Witness ==
    /\ op = "delete" /\ ret = "True"
    /\ BSTree_len(PreTree) = 1 /\ ~BSTree_bool(Tree)

\* What the last insert or delete left at rest: every bf in -1..1.
AtRest == \A n \in NodesOf(Snap) : Abs(bf[n]) <= 1

\* C18 as stated: during an insert or delete no bf leaves -2..2, a bf of -2
\* or 2 exists only on the node whose balance() is about to run or running,
\* and none is left once the call has returned.
C18_TransientOnlyOnBalanced ==
    op \in {"insert", "delete"} =>
        /\ obs.worst <= 2
        /\ ~obs.stray
        /\ AtRest

\* C18 amended: during an insert or delete no bf leaves -2..2, a bf of -2 or
\* 2 exists only on the node whose balance() is about to run or running or,
\* inside a double rotation, on the node its inner rotation lifts, and none
\* is left once the call has returned.
C18_TransientBf ==
    op \in {"insert", "delete"} =>
        /\ obs.worst <= 2
        /\ ~obs.astray
        /\ AtRest

\* C18 witness: an insert whose double rotation put |bf| = 2 on the lifted
\* node as well as on the node being balanced.
C18_Witness ==
    /\ op = "insert" /\ ret = "True"
    /\ obs.worst = 2 /\ obs.stray /\ ~obs.astray
    /\ Len(obs.rots) = 2

\* C19: no rotation fails in any sequence of insert and delete calls: every
\* node balance() rotates right (left) has a left (right) child, so neither
\* the ValueError of a rotation nor the assert of balance() is ever raised.
C19_RotationsNeverFail ==
    /\ "ValueError" \notin obs.raised
    /\ "AssertionError" \notin obs.raised

\* C19 witness: a successful delete whose balance() did a double rotation,
\* the inner one a left rotation of the left child.
C19_Witness ==
    /\ op = "delete" /\ ret = "True"
    /\ obs.rots = <<"rotate_left", "rotate_right">>
    /\ obs.raised = {}

\* C20: a tree built from three distinct values, in any order, has the median
\* at the root, the smallest as its left child, the largest as its right
\* child, both of them leaves, and bf = 0 on all three; a descending order
\* takes one right rotation and nothing else, and the order smallest,
\* largest, median takes a right rotation (of the child) and then a left
\* rotation.
C20_ThreeValues ==
    (/\ op = "init" /\ Len(iterable) = 3
     /\ Cardinality({iterable[i] : i \in 1..3}) = 3) =>
        LET s == SortedSeq({iterable[i] : i \in 1..3})
            l == left[root]
            r == right[root]
        IN  /\ root # Nil /\ l # Nil /\ r # Nil
            /\ value[root] = s[2] /\ value[l] = s[1] /\ value[r] = s[3]
            /\ bf[root] = 0 /\ bf[l] = 0 /\ bf[r] = 0
            /\ left[l] = Nil /\ right[l] = Nil
            /\ left[r] = Nil /\ right[r] = Nil
            /\ iterable = <<s[3], s[2], s[1]>> => obs.rots = <<"rotate_right">>
            /\ iterable = <<s[1], s[3], s[2]>>
                   => obs.rots = <<"rotate_right", "rotate_left">>

\* C20 witness: the tree built from (1, 3, 2), by a right rotation and then a
\* left rotation.
C20_Witness ==
    /\ op = "init" /\ iterable = <<1, 3, 2>>
    /\ value[root] = 2
    /\ obs.rots = <<"rotate_right", "rotate_left">>

\* The node of snapshot s that holds value v.
Holder(s, v) == CHOOSE n \in NodesOf(s) : s.value[n] = v

\* The values below node n of snapshot s, n included.
ValuesUnder(s, n) == {s.value[m] : m \in Reach(s, n)}

\* The largest element of a non-empty set of integers.
Largest(S) == CHOOSE v \in S : \A w \in S : w <= v

\* The last call was a successful delete of a value held by a node with two
\* children.
TwoChildDelete ==
    /\ op = "delete" /\ ret = "True"
    /\ \E n \in NodesOf(pre) :
           pre.value[n] = arg /\ pre.left[n] # Nil /\ pre.right[n] # Nil

\* The tree built by inserting 5, 3, 8, 1, 4.
Scenario53814(s) ==
    /\ ValueSet(s) = {1, 3, 4, 5, 8}
    /\ s.root # Nil /\ s.value[s.root] = 5
    /\ s.left[s.root] # Nil /\ s.value[s.left[s.root]] = 3
    /\ s.right[s.root] # Nil /\ s.value[s.right[s.root]] = 8

\* C21: deleting a value held by a node with two children makes that node
\* hold the maximum of its left subtree and leaves the tree balanced; after
\* inserting 5, 3, 8, 1, 4 and deleting 5 the root holds 4, every bf is in
\* -1..1 and the in-order traversal is 1, 3, 4, 8.
C21_TwoChildDeletePredecessor ==
    TwoChildDelete =>
        LET n == Holder(pre, arg)
            d == Node_delete(PreTree.h, n, arg)
        IN  /\ d.err = "ok"
            /\ d.h.value[n] = Largest(ValuesUnder(pre, pre.left[n]))
            /\ Balanced(Snap)
            /\ (Scenario53814(pre) /\ arg = 5) =>
                   /\ value[root] = 4
                   /\ BSTree_iter(Tree) = <<1, 3, 4, 8>>

\* C21 witness: 5 deleted from the tree built from 5, 3, 8, 1, 4.
C21_Witness ==
    /\ TwoChildDelete /\ arg = 5 /\ Scenario53814(pre)
    /\ value[root] = 4

\* The node a successful delete of v from snapshot s splices out: the holder
\* of v, or the holder of its predecessor when the holder of v has two
\* children.
Spliced(s, v) ==
    LET n == Holder(s, v)
    IN  IF s.left[n] # Nil /\ s.right[n] # Nil
        THEN Holder(s, Largest(ValuesUnder(s, s.left[n])))
        ELSE n

\* The slots (parent, side) of snapshot s that refer to node n.
SlotsTo(s, n) ==
    {<<m, "left">> : m \in {k \in NodesOf(s) : s.left[k] = n}}
    \cup {<<m, "right">> : m \in {k \in NodesOf(s) : s.right[k] = n}}

\* C22: after any sequence of inserts and deletes the nodes reachable from
\* the root form a tree: the root is in no child slot, every other node is
\* in exactly one, no node is below itself, and after a successful delete
\* the reachable nodes are those of before without the spliced node.
C22_TreeShape ==
    /\ \A n \in NodesOf(Snap) :
           /\ Cardinality(SlotsTo(Snap, n)) = (IF n = root THEN 0 ELSE 1)
           /\ n \notin Reach(Snap, left[n]) \cup Reach(Snap, right[n])
    /\ (op = "delete" /\ ret = "True") =>
           LET d == delete(PreTree, arg).t
           IN  Reach(d.h, d.root) = NodesOf(pre) \ {Spliced(pre, arg)}

\* C22 witness: a successful delete that spliced out a node other than the
\* holder of the deleted value and rotated.
C22_Witness ==
    /\ op = "delete" /\ ret = "True"
    /\ Spliced(pre, arg) # Holder(pre, arg)
    /\ Len(obs.rots) >= 1

\* C23: in every frame of Node.insert the test on the child's bf before and
\* after the recursive call is true exactly when the real height of that
\* child subtree grew by one, also when the call returned a different node
\* as the subtree's root; the bf values that result are the real height
\* differences.
C23_InsertGrowthTest ==
    op = "insert" =>
        /\ ~obs.misjudged
        /\ ret = "True" => Balanced(Snap)

\* C23 witness: an insert in which one frame saw its child subtree grow with
\* the same root and a frame above saw a rotated child subtree, with a new
\* root, that did not grow.
C23_Witness ==
    /\ op = "insert" /\ ret = "True"
    /\ <<TRUE, "same", FALSE>> \in obs.judged
    /\ <<FALSE, "other", TRUE>> \in obs.judged

\* C24: in every frame of Node.delete the test after the recursive call
\* (child slot empty, or the old child's bf was 1 or -1 and the returned
\* child's bf is 0) is true exactly when the real height of that child
\* subtree decreased by one; the bf values that result are the real height
\* differences.
C24_DeleteShrinkTest ==
    (op = "delete" /\ arg # None) =>
        /\ ~obs.misjudged
        /\ ret = "True" => Balanced(Snap)

\* C24 witness: a delete in which one frame saw its child slot emptied and a
\* frame above saw its child come back with bf = 0 that had bf = 0 before,
\* without a decrease of height.
C24_Witness ==
    /\ op = "delete" /\ arg # None /\ ret = "True"
    /\ <<TRUE, "absent", FALSE>> \in obs.judged
    /\ <<FALSE, "same", TRUE>> \in obs.judged

\* The stored bf of node n of snapshot s is its real height difference.
TrueBf(s, n) ==
    s.bf[n] = TrueHeight(s, s.right[n]) - TrueHeight(s, s.left[n])

\* What a rotation of the root of `pre` that lifted child b was to do: the
\* result r of running it on PreTree has b on top and the old root n under
\* it, the in-order sequence is as before, both have their real bf, and
\* nothing else in the heap differs.
RotationRight(r, n, b) ==
    LET s == [root |-> r.n, left |-> r.h.left, right |-> r.h.right,
              value |-> r.h.value, bf |-> r.h.bf]
    IN  /\ r.err = "ok" /\ r.n = b
        /\ Node_iter(r.h, r.n) = BSTree_iter(PreTree)
        /\ TrueBf(s, n) /\ TrueBf(s, b)
        /\ \A m \in NodeIds \ {n, b} :
               /\ r.h.left[m] = pre.left[m] /\ r.h.right[m] = pre.right[m]
               /\ r.h.bf[m] = pre.bf[m]
        /\ r.h.value = pre.value

\* C25: rotate_left and rotate_right, applied to a subtree whose two
\* involved nodes carry their real bf (the root's in -3..3), return the
\* lifted child as root of a subtree with the same in-order sequence in
\* which both nodes again carry their real bf; no other node's bf or links
\* and no value is changed.
C25_RotationBf ==
    /\ (op = "rotate_left" /\ pre.right[pre.root] # Nil) =>
           /\ ret = "ok"
           /\ RotationRight(rotate_left(PreTree.h, pre.root),
                            pre.root, pre.right[pre.root])
           /\ TrueBf(Snap, root) /\ TrueBf(Snap, left[root])
    /\ (op = "rotate_right" /\ pre.left[pre.root] # Nil) =>
           /\ ret = "ok"
           /\ RotationRight(rotate_right(PreTree.h, pre.root),
                            pre.root, pre.left[pre.root])
           /\ TrueBf(Snap, root) /\ TrueBf(Snap, right[root])

\* C25 witness: a left rotation of a root with bf = 2 whose right child
\* leaned left, so that the lifted node ends with bf = -2.
C25_Witness ==
    /\ op = "rotate_left" /\ ret = "ok"
    /\ pre.bf[pre.root] = 2 /\ pre.bf[pre.right[pre.root]] = 0 - 1
    /\ bf[root] = 0 - 2

\* Every node of the subtree rooted at n of snapshot s has its real bf, in
\* -1..1.
AvlBelow(s, n) ==
    \A m \in Reach(s, n) : TrueBf(s, m) /\ s.bf[m] \in {0 - 1, 0, 1}

\* C26: balance() on a node with bf in -1..1 returns that node and changes
\* nothing; with bf = -2 it does one right rotation when the left child's
\* bf <= 0, and a left rotation of the left child then a right rotation
\* when it is > 0 (mirrored for bf = 2); when in these cases both children
\* are valid AVL subtrees, every node of the returned subtree has its real
\* bf, in -1..1.
C26_BalanceCases ==
    op = "balance" =>
        LET n == pre.root
            l == pre.left[n]
            r == pre.right[n]
        IN  /\ pre.bf[n] \in {0 - 1, 0, 1} =>
                   ret = "ok" /\ Snap = pre /\ obs.rots = <<>>
            /\ (pre.bf[n] = 0 - 2 /\ pre.bf[l] <= 0) =>
                   /\ ret = "ok" /\ obs.rots = <<"rotate_right">>
                   /\ value[root] = pre.value[l]
            /\ (pre.bf[n] = 0 - 2 /\ pre.bf[l] > 0) =>
                   /\ ret = "ok" /\ obs.rots = <<"rotate_left", "rotate_right">>
                   /\ value[root] = pre.value[pre.right[l]]
            /\ (pre.bf[n] = 2 /\ pre.bf[r] >= 0) =>
                   /\ ret = "ok" /\ obs.rots = <<"rotate_left">>
                   /\ value[root] = pre.value[r]
            /\ (pre.bf[n] = 2 /\ pre.bf[r] < 0) =>
                   /\ ret = "ok" /\ obs.rots = <<"rotate_right", "rotate_left">>
                   /\ value[root] = pre.value[pre.left[r]]
            /\ (/\ pre.bf[n] \in (0 - 2)..2
                /\ AvlBelow(pre, l) /\ AvlBelow(pre, r)) =>
                   /\ Balanced(Snap)
                   /\ BSTree_iter(Tree) = BSTree_iter(PreTree)

\* C26 witness: balance() on a node with bf = -2 whose left child leans
\* right and whose left-right grandchild leans right too, both children
\* valid AVL subtrees.
C26_Witness ==
    /\ op = "balance" /\ ret = "ok"
    /\ pre.bf[pre.root] = 0 - 2
    /\ pre.bf[pre.left[pre.root]] = 1
    /\ pre.bf[pre.right[pre.left[pre.root]]] = 1
    /\ AvlBelow(pre, pre.left[pre.root]) /\ AvlBelow(pre, pre.right[pre.root])
    /\ obs.rots = <<"rotate_left", "rotate_right">>

\* C27: when delete finds its target in a node n with two children, n gets
\* the maximum of its left subtree as value; the recursive delete of that
\* value in the left subtree succeeds and splices out a node that had no
\* right child; that step leaves n's right subtree as it was; and afterwards
\* the value is held by exactly one node.
C27_PredecessorStep ==
    TwoChildDelete =>
        LET n == Holder(pre, arg)
            sv == find_max(PreTree.h, pre.left[n])
            m == CHOOSE k \in Reach(pre, pre.left[n]) : pre.value[k] = sv
            h0 == [PreTree.h EXCEPT !.value[n] = sv]
            r == Node_delete(h0, pre.left[n], sv)
            d == Node_delete(PreTree.h, n, arg)
        IN  /\ sv = Largest(ValuesUnder(pre, pre.left[n]))
            /\ d.err = "ok" /\ d.h.value[n] = sv
            /\ r.err = "ok"
            /\ pre.right[m] = Nil
            /\ m \notin Reach(r.h, r.n)
            /\ Reach(r.h, r.n) = Reach(pre, pre.left[n]) \ {m}
            /\ r.h.right[n] = pre.right[n]
            /\ \A k \in Reach(pre, pre.right[n]) :
                   /\ r.h.left[k] = pre.left[k] /\ r.h.right[k] = pre.right[k]
                   /\ r.h.value[k] = pre.value[k] /\ r.h.bf[k] = pre.bf[k]
            /\ Cardinality({k \in Reach(d.h, d.n) : d.h.value[k] = sv}) = 1
            /\ Cardinality({k \in NodesOf(Snap) : value[k] = sv}) = 1

\* C27 witness: a delete of a value whose node had two children and whose
\* predecessor was held by a node with a left child, two levels below.
C27_Witness ==
    /\ TwoChildDelete
    /\ \E m \in Reach(pre, pre.left[Holder(pre, arg)]) :
           /\ pre.value[m] = find_max(PreTree.h, pre.left[Holder(pre, arg)])
           /\ pre.left[m] # Nil
           /\ m # pre.left[Holder(pre, arg)]

\* The calls that only read.
ReadOnlyOps ==
    {"contains", "get", "index", "len", "iter", "reversed",
     "find_min", "find_max"}

\* C28: contains, get, index, length, forward and reverse iteration,
\* find_min and find_max leave root, every link, every value and every bf as
\* they were, whether they return a result or raise.
C28_ReadOnly ==
    op \in ReadOnlyOps =>
        /\ Snap = pre
        /\ op = "find_min" => \A v \in ValueSet(Snap) : retval <= v
        /\ op = "find_max" => \A v \in ValueSet(Snap) : retval >= v

\* C28 witness: index() of an absent value raised on a tree of three or more
\* nodes and left it as it was.
C28_Witness ==
    /\ op = "index" /\ ret = "ValueError"
    /\ Cardinality(NodesOf(Snap)) >= 3
    /\ Snap = pre

\* C29: set(i, v) with i in range and v not None and not in the tree keeps
\* the length, makes the value set the old one without the old rank-i value
\* and with v, puts v at its sorted rank, and leaves the tree ordered and
\* balanced.
C29_SetReplaces ==
    (/\ op = "set" /\ InRange(pre, idx)
     /\ arg # None /\ arg \notin ValueSet(pre)) =>
        /\ ret = "None"
        /\ BSTree_len(Tree) = BSTree_len(PreTree)
        /\ ValueSet(Snap) = (ValueSet(pre) \ {RankValue(pre, idx)}) \cup {arg}
        /\ index(Tree, arg).err = "ok"
        /\ index(Tree, arg).val = Cardinality({w \in ValueSet(Snap) : w < arg})
        /\ BSTree_iter(Tree) = SortedSeq(ValueSet(Snap))
        /\ Ordered(Snap) /\ Balanced(Snap)

\* C29 witness: a set on a tree of three values, through a negative index,
\* that replaced a value by one of another rank and rotated.
C29_Witness ==
    /\ op = "set" /\ ret = "None" /\ idx < 0
    /\ arg # None /\ arg \notin ValueSet(pre)
    /\ Cardinality(ValueSet(pre)) = 3
    /\ index(Tree, arg).val # index(PreTree, RankValue(pre, idx)).val
    /\ Len(obs.rots) >= 1

\* The nodes of snapshot s strictly above node n.
Ancestors(s, n) == {a \in NodesOf(s) : a # n /\ n \in Reach(s, a)}

\* C30: in a successful insert at most one balance() call rotates (one or
\* two rotations); the subtree it returns is as high as the subtree of its
\* node was before the insert, and every node that was above it keeps its
\* bf.
C30_OneRebalance ==
    (op = "insert" /\ ret = "True") =>
        /\ Len(obs.fixes) <= 1
        /\ Len(obs.fixes) = 0 => obs.rots = <<>>
        /\ Len(obs.fixes) = 1 =>
               LET n == Holder(pre, obs.fixes[1][1])
               IN  /\ Len(obs.rots) \in {1, 2}
                   /\ obs.fixes[1][2] = TrueHeight(pre, n)
                   /\ \A a \in Ancestors(pre, n) :
                          bf[Holder(Snap, pre.value[a])] = pre.bf[a]

\* C30 witness: an insert whose only rebalancing was a double rotation at a
\* node with two or more nodes above it.
C30_Witness ==
    /\ op = "insert" /\ ret = "True"
    /\ Len(obs.fixes) = 1 /\ Len(obs.rots) = 2
    /\ Cardinality(Ancestors(pre, Holder(pre, obs.fixes[1][1]))) >= 2

====
